---- MODULE Spec2Model ----
(***************************************************************************)
(* Delta discovery of gitdoctor: DeltaFinder.find_deltas iterating         *)
(* DeltaFinder._compare_in_project over the configured projects, with      *)
(* DeltaFinder._ref_exists resolving the two references and the GitLab     *)
(* client (get_tag, get_branch, get_commit, list_commits_from_ref) as the  *)
(* remote the finder talks to; the caller (handle_delta_command) that      *)
(* receives the results and asks DeltaFinder.generate_summary for their    *)
(* summary; and GitLabClient._get_paginated, the loop that collects the    *)
(* pages of a listing.  Beside it, the three other users of the client:    *)
(* MRFinder.find_merge_requests, CommitFinder.search_commits and           *)
(* ProjectResolver.resolve_projects, each under a specification of its own.*)
(*                                                                         *)
(* Encoding of Python values:                                              *)
(*   - a commit hash, a reference name, an error text: a string;           *)
(*   - an ISO-8601 timestamp: a positive integer, ordered as the strings   *)
(*     are ordered by Python's < on str; the empty string "" is 0, below   *)
(*     every timestamp;                                                    *)
(*   - a commit dictionary: a record; a key the dictionary lacks is a      *)
(*     field the record lacks (see Get);                                   *)
(*   - None of an Optional[str] error: the value None below; None in the   *)
(*     place of a timestamp (a JSON null): Null.                           *)
(***************************************************************************)
EXTENDS Integers, Sequences, FiniteSets, TLC

\* ------------------------------------------------------------------ bounds
NumProjects == 3        \* length of the project list handed to DeltaFinder
MaxListLen  == 2        \* longest commit listing the remote answers with
MaxSummaries == 2       \* calls of generate_summary on one list of results
MaxPage     == 3        \* pages the remote holds for one paginated endpoint
MaxFetches  == 4        \* requests one _get_paginated run is followed for

\* ---------------------------------------------------------- Python values
None     == "None"      \* Optional[str] error: None
EmptyStr == 0           \* the str "" among timestamps
Null     == -1          \* a JSON null read as a timestamp: Python's None

\* dict.get(key, default)
Get(d, key, default) == IF key \in DOMAIN d THEN d[key] ELSE default

\* truth value of an Optional[str] timestamp: None and "" are both falsy
Truthy(s) == s # EmptyStr /\ s # Null

Range(s) == {s[k] : k \in DOMAIN s}

SeqsUpTo(S, n) == UNION {[1..k -> S] : k \in 0..n}

\* every order in which a set can be iterated
Orders(S) == {o \in [1..Cardinality(S) -> S] : Range(o) = S}

\* every rearrangement of a list
Rearranged(s) ==
    {[k \in DOMAIN s |-> s[o[k]]] : o \in Orders(DOMAIN s)}

\* ------------------------------------------------------------ the remote
Refs       == {"v1", "v2"}
ProjectIds == {1, 2}
Hashes     == {"A", "B"}
Dates      == {1, 2}

\* outcome of one client call: a value, GitLabNotFound, another
\* GitLabAPIError, or an exception outside that hierarchy
Outcomes == {"ok", "notfound", "apierror", "exception"}

\* str(e) of the exception a client call raised
ExcText(outcome) ==
    CASE outcome = "notfound"  -> "404 Resource not found"
      [] outcome = "apierror"  -> "API request failed: 500"
      [] outcome = "exception" -> "boom"

ProjectInfo(id) ==
    [id |-> id, path_with_namespace |-> IF id = 1 THEN "group/project1"
                                                  ELSE "group/project2"]

VARIABLES
    remote,             \* remote[project_id][ref]: what each client call answers
    projects,           \* self.projects
    commit_list,        \* CommitFinder.search_commits: commit_list
    config,             \* ProjectResolver: self.config
    base_ref, target_ref, after_date, before_date,  \* arguments of find_deltas
    pc,                 \* position in find_deltas / _compare_in_project / _ref_exists
    i,                  \* index of the project of the current iteration (1-based)
    results,            \* find_deltas: results
    resolving,          \* which reference _ref_exists is running for
    result,             \* _compare_in_project: result
    target_commit_map,  \* _compare_in_project: target_commit_map
    calls,              \* client calls made so far, in order
    deltas,             \* handle_delta_command: deltas
    summaries,          \* what generate_summary returned, call after call
    pages,              \* what the remote answers for each page of an endpoint
    page,               \* _get_paginated: params["page"]
    all_items,          \* _get_paginated: all_items
    fetched             \* pages _get_paginated requested so far, in order

vars == <<remote, projects, commit_list, config, base_ref, target_ref, after_date, before_date,
          pc, i, results, resolving, result, target_commit_map, calls,
          deltas, summaries, pages, page, all_items, fetched>>

args == <<remote, projects, commit_list, config,
          base_ref, target_ref, after_date, before_date>>

\* the state of _get_paginated
paging == <<pages, page, all_items, fetched>>

\* what a run of find_deltas leaves alone
aside == <<deltas, summaries, paging>>

\* a local variable before and after its assignment
Unbound == [bound |-> FALSE]

Bound(value) == [bound |-> TRUE, value |-> value]

\* ------------------------------------------------------------ DeltaResult
\* mutant of DeltaResult: the commit list is one list shared by all results
\* (a mutable default instead of default_factory)
DeltaResultShared(project, base, target) ==
    [project_id          |-> project.id,
     project_path        |-> project.path_with_namespace,
     base_ref            |-> base,
     target_ref          |-> target,
     base_exists         |-> FALSE,
     target_exists       |-> FALSE,
     commits             |-> IF results = <<>> THEN <<>>
                             ELSE results[Len(results)].commits,
     total_commits       |-> 0,
     base_commit_count   |-> 0,
     target_commit_count |-> 0,
     compare_same_ref    |-> FALSE,
     error               |-> None]

DeltaResult(project, base, target) ==
    [project_id          |-> project.id,
     project_path        |-> project.path_with_namespace,
     base_ref            |-> base,
     target_ref          |-> target,
     base_exists         |-> FALSE,
     target_exists       |-> FALSE,
     commits             |-> <<>>,
     total_commits       |-> 0,
     base_commit_count   |-> 0,
     target_commit_count |-> 0,
     compare_same_ref    |-> FALSE,
     error               |-> None]

has_changes(d) == Len(d.commits) > 0

is_successful(d) == d.error = None /\ d.base_exists /\ d.target_exists

NoResult == DeltaResult([id |-> 0, path_with_namespace |-> ""], "", "")

EmptyMap == [h \in {} |-> <<>>]

\* ----------------------------------------------- _compare_in_project, pure
\* the reference a _ref_exists run is for
RefOf(which) == IF which = "base" THEN base_ref ELSE target_ref

\* _ref_exists: what one lookup's outcome means for the run.  "true"/"false":
\* return that value; "next": go on to the next kind; "raise": the exception
\* leaves _ref_exists
\* mutant of AfterLookup: a lookup that raised an API error ends the run
\* with False at once
AfterLookupStrict(kind, outcome) ==
    CASE outcome = "ok"        -> "true"
      [] outcome = "exception" -> "raise"
      [] outcome = "apierror"  -> "false"
      [] OTHER                 -> IF kind = "get_commit" THEN "false" ELSE "next"

AfterLookup(kind, outcome) ==
    CASE outcome = "ok"        -> "true"
      [] outcome = "exception" -> "raise"
      [] OTHER                 -> IF kind = "get_commit" THEN "false" ELSE "next"

\* mutant of NextKind: the commit lookup is tried before the branch lookup
NextKindCommitFirst(kind) ==
    IF kind = "get_tag" THEN "get_commit" ELSE "get_branch"

\* _ref_exists: the kind tried after `kind`
NextKind(kind) == IF kind = "get_tag" THEN "get_branch" ELSE "get_commit"

\* the except clauses of _compare_in_project
ExceptClause(outcome) ==
    CASE outcome = "notfound" -> "Resource not found: " \o ExcText(outcome)
      [] outcome = "apierror" -> "API error: " \o ExcText(outcome)
      [] OTHER                -> "Unexpected error: " \o ExcText(outcome)

\* steps 1 and 2: the result after _ref_exists returned `exists` for `which`
RefNotFound(which, ref) ==
    (IF which = "base" THEN "Base ref '" ELSE "Target ref '")
        \o ref \o "' not found in this project"

\* mutant of Resolved: an absent reference is flagged but no error is set
ResolvedSilently(r, which, exists) ==
    IF which = "base" THEN [r EXCEPT !.base_exists = exists]
                      ELSE [r EXCEPT !.target_exists = exists]

Resolved(r, which, exists) ==
    LET flagged == IF which = "base" THEN [r EXCEPT !.base_exists = exists]
                                     ELSE [r EXCEPT !.target_exists = exists]
    IN  IF exists THEN flagged
        ELSE [flagged EXCEPT !.error = RefNotFound(which, RefOf(which))]

\* mutant of CommitMap: the first record listed under a hash is the one kept
CommitMapFirstWins(items) ==
    LET ids == {Get(items[k], "id", None) : k \in DOMAIN items}
        first(h) == CHOOSE k \in DOMAIN items :
                      /\ Get(items[k], "id", None) = h
                      /\ \A m \in DOMAIN items :
                           Get(items[m], "id", None) = h => k <= m
    IN  [h \in ids |-> items[first(h)]]

\* {commit.get("id"): commit for commit in target_commits}: the last record
\* listed under a hash is the one kept
CommitMap(items) ==
    LET ids == {Get(items[k], "id", None) : k \in DOMAIN items}
        last(h) == CHOOSE k \in DOMAIN items :
                     /\ Get(items[k], "id", None) = h
                     /\ \A m \in DOMAIN items :
                          Get(items[m], "id", None) = h => m <= k
    IN  [h \in ids |-> items[last(h)]]

\* {commit.get("id") for commit in base_commits}
ShaSet(items) == {Get(items[k], "id", None) : k \in DOMAIN items}

\* mutant of DeltaShas: the base's hashes are not taken away
DeltaShasNoBase(target_shas, base_shas) == target_shas

\* step 5: delta_shas = target_shas - base_shas
DeltaShas(target_shas, base_shas) == target_shas \ base_shas

\* mutant of TotalCommits: the operands of the difference swapped
TotalCommitsSwapped(target_shas, base_shas) ==
    Cardinality(base_shas \ target_shas)

\* result.total_commits = len(delta_shas)
TotalCommits(target_shas, base_shas) ==
    Cardinality(DeltaShas(target_shas, base_shas))

\* mutant of SameRef: two empty listings are not taken for identical
SameRefNonEmpty(target_shas, base_shas) ==
    target_shas # {} /\ target_shas = base_shas

\* mutant of SameRef: an empty delta alone is taken for identical references
SameRefEmptyDelta(target_shas, base_shas) ==
    DeltaShas(target_shas, base_shas) = {}

\* if not delta_shas and target_shas == base_shas
SameRef(target_shas, base_shas) ==
    DeltaShas(target_shas, base_shas) = {} /\ target_shas = base_shas

\* mutant of KeepCommit: the before_date test is missing
KeepCommitAfterOnly(committed_date, after, before) ==
    ~(Truthy(after) /\ Truthy(committed_date) /\ committed_date < after)

\* step 6: the two `continue` tests failed, so the commit is kept
KeepCommit(committed_date, after, before) ==
    /\ ~(Truthy(after) /\ Truthy(committed_date) /\ committed_date < after)
    /\ ~(Truthy(before) /\ Truthy(committed_date) /\ committed_date > before)

DeltaCommit(commit_data) ==
    [commit_sha     |-> Get(commit_data, "id", ""),
     author_name    |-> Get(commit_data, "author_name", ""),
     committed_date |-> Get(commit_data, "committed_date", EmptyStr),
     parent_ids     |-> Get(commit_data, "parent_ids", <<>>)]

\* the loop of step 6 over delta_shas iterated in `order`: the DeltaCommits
\* it appends to result.commits
FilteredCommits(order, commit_map, after, before) ==
    LET keep(sha) == KeepCommit(Get(commit_map[sha], "committed_date", EmptyStr),
                                after, before)
        kept == SelectSeq(order, keep)
    IN  [k \in 1..Len(kept) |-> DeltaCommit(commit_map[kept[k]])]

\* mutant of InsertDesc: the list is left in the order of the loop
InsertLast(sorted, c) == Append(sorted, c)

\* list.sort(key=committed_date, reverse=True): stable, newest first
InsertDesc(sorted, c) ==
    LET n == Cardinality({k \in DOMAIN sorted :
                            sorted[k].committed_date >= c.committed_date})
    IN  SubSeq(sorted, 1, n) \o <<c>> \o SubSeq(sorted, n + 1, Len(sorted))

RECURSIVE SortDesc(_)
SortDesc(s) ==
    IF s = <<>> THEN <<>>
    ELSE InsertDesc(SortDesc(SubSeq(s, 1, Len(s) - 1)), s[Len(s)])

\* comparing two keys raises TypeError when one of them is None, and a sort
\* of two or more elements compares each of them at least once
SortRaises(s) ==
    Len(s) >= 2 /\ \E k \in DOMAIN s : s[k].committed_date = Null

TypeErrorText == "'<' not supported between instances of 'NoneType' and 'str'"

\* mutant of Counted: total_commits counts the delta after the date filter
CountedAfterFilter(r, commit_map, base_commits) ==
    LET target_shas == DOMAIN commit_map
        base_shas   == ShaSet(base_commits)
        kept == {sha \in DeltaShas(target_shas, base_shas) :
                   KeepCommit(Get(commit_map[sha], "committed_date", EmptyStr),
                              after_date, before_date)}
    IN  [r EXCEPT
           !.base_commit_count   = Cardinality(base_shas),
           !.target_commit_count = Cardinality(target_shas),
           !.compare_same_ref    = SameRef(target_shas, base_shas),
           !.total_commits       = Cardinality(kept)]

\* steps 4 and 5 once base_commits is listed
Counted(r, commit_map, base_commits) ==
    LET target_shas == DOMAIN commit_map
        base_shas   == ShaSet(base_commits)
    IN  [r EXCEPT
           !.base_commit_count   = Cardinality(base_shas),
           !.target_commit_count = Cardinality(target_shas),
           !.compare_same_ref    = SameRef(target_shas, base_shas),
           !.total_commits       = TotalCommits(target_shas, base_shas)]

\* steps 6 and 7: the results the loop over `order` and the sort can leave.
\* A sort that raises leaves the list in some order and the exception goes
\* to `except Exception`
Compared(r, commit_map, base_commits, order, after, before) ==
    LET counted  == Counted(r, commit_map, base_commits)
        appended == r.commits \o FilteredCommits(order, commit_map, after, before)
    IN  IF SortRaises(appended)
        THEN {[counted EXCEPT !.commits = left,
                              !.error = "Unexpected error: " \o TypeErrorText] :
                left \in Rearranged(appended)}
        ELSE {[counted EXCEPT !.commits = SortDesc(appended)]}

\* -------------------------------------------------------- generate_summary
TopN == 10              \* project_commits[:10]

\* the author names of the model, in the order of Python's < on str
AuthorNames == <<"", "ann", "bob">>

RECURSIVE Sum(_)
Sum(s) == IF s = <<>> THEN 0 ELSE s[1] + Sum(Tail(s))

\* sum(1 for d in deltas if d.has_changes)
ProjectsWithChanges(ds) == Cardinality({k \in DOMAIN ds : has_changes(ds[k])})

\* sum(1 for d in deltas if d.error is not None)
ProjectsWithErrors(ds) == Cardinality({k \in DOMAIN ds : ds[k].error # None})

\* sum(len(d.commits) for d in deltas)
SummedCommits(ds) == Sum([k \in DOMAIN ds |-> Len(ds[k].commits)])

\* all_authors: the set the two loops build
AllAuthors(ds) ==
    UNION {{c.author_name : c \in Range(ds[k].commits)} : k \in DOMAIN ds}

\* mutant of UniqueAuthors: only the commits of the first result are read
UniqueAuthorsOfFirst(ds) ==
    LET named(n) == \E c \in Range(ds[1].commits) : c.author_name = n
    IN  SelectSeq(AuthorNames, named)

\* sorted(list(all_authors))
UniqueAuthors(ds) ==
    LET named(n) == n \in AllAuthors(ds)
    IN  SelectSeq(AuthorNames, named)

\* (d.project_path, len(d.commits)) for d in deltas if d.has_changes
ProjectCommits(ds) ==
    LET changed == SelectSeq(ds, has_changes)
    IN  [k \in DOMAIN changed |->
            <<changed[k].project_path, Len(changed[k].commits)>>]

\* project_commits.sort(key=lambda x: x[1], reverse=True): stable
InsertByCount(sorted, x) ==
    LET n == Cardinality({k \in DOMAIN sorted : sorted[k][2] >= x[2]})
    IN  SubSeq(sorted, 1, n) \o <<x>> \o SubSeq(sorted, n + 1, Len(sorted))

RECURSIVE SortByCount(_)
SortByCount(s) ==
    IF s = <<>> THEN <<>>
    ELSE InsertByCount(SortByCount(SubSeq(s, 1, Len(s) - 1)), s[Len(s)])

\* s[:n]
Prefix(s, n) == SubSeq(s, 1, IF Len(s) < n THEN Len(s) ELSE n)

\* mutant of TopProjects: the list is cut before it is sorted
TopProjectsCutFirst(ds) == SortByCount(Prefix(ProjectCommits(ds), TopN))

TopProjects(ds) == Prefix(SortByCount(ProjectCommits(ds)), TopN)

\* files_changed, total_additions and total_deletions are 0 in every
\* DeltaResult of the finder, and so are their sums
generate_summary(ds) ==
    IF ds = <<>>
    THEN [base_ref                 |-> "",
          target_ref               |-> "",
          total_projects           |-> 0,
          projects_with_changes    |-> 0,
          projects_without_changes |-> 0,
          projects_with_errors     |-> 0,
          total_base_commits       |-> 0,
          total_target_commits     |-> 0,
          total_commits            |-> 0,
          total_files_changed      |-> 0,
          total_additions          |-> 0,
          total_deletions          |-> 0,
          unique_authors           |-> <<>>,
          top_projects             |-> <<>>]
    ELSE [base_ref                 |-> ds[1].base_ref,
          target_ref               |-> ds[1].target_ref,
          total_projects           |-> Len(ds),
          projects_with_changes    |-> ProjectsWithChanges(ds),
          projects_without_changes |->
              Len(ds) - ProjectsWithChanges(ds) - ProjectsWithErrors(ds),
          projects_with_errors     |-> ProjectsWithErrors(ds),
          total_base_commits       |->
              Sum([k \in DOMAIN ds |-> ds[k].base_commit_count]),
          total_target_commits     |->
              Sum([k \in DOMAIN ds |-> ds[k].target_commit_count]),
          total_commits            |-> SummedCommits(ds),
          total_files_changed      |-> 0,
          total_additions          |-> 0,
          total_deletions          |-> 0,
          unique_authors           |-> UniqueAuthors(ds),
          top_projects             |-> TopProjects(ds)]
Call(method, which) ==
    [iteration  |-> i,
     project_id |-> projects[i].id,
     method     |-> method,
     which      |-> which,
     ref        |-> RefOf(which)]

\* the for loop of find_deltas enters _compare_in_project for project i
CompareBegin ==
    /\ pc = "loop"
    /\ i <= Len(projects)
    /\ result' = DeltaResult(projects[i], base_ref, target_ref)
    /\ target_commit_map' = EmptyMap
    /\ resolving' = "base"
    /\ pc' = "get_tag"
    /\ UNCHANGED <<args, aside, i, results, calls>>

\* mutant of Lookup: an absent base reference does not end the comparison,
\* the target is resolved all the same
LookupPastAbsent(kind) ==
    /\ LET outcome == remote[projects[i].id][RefOf(resolving)][kind]
           verdict == AfterLookup(kind, outcome)
       IN  /\ calls' = Append(calls, Call(kind, resolving))
           /\ CASE verdict = "next" ->
                     /\ pc' = NextKind(kind)
                     /\ UNCHANGED <<result, resolving>>
                [] verdict = "raise" ->
                     /\ result' = [result EXCEPT !.error = ExceptClause(outcome)]
                     /\ resolving' = ""
                     /\ pc' = "return"
                [] verdict = "true" ->
                     /\ result' = Resolved(result, resolving, TRUE)
                     /\ resolving' = IF resolving = "base" THEN "target" ELSE ""
                     /\ pc' = IF resolving = "base" THEN "get_tag" ELSE "list_target"
                [] verdict = "false" ->
                     /\ result' = Resolved(result, resolving, FALSE)
                     /\ resolving' = IF resolving = "base" THEN "target" ELSE ""
                     /\ pc' = IF resolving = "base" THEN "get_tag" ELSE "return"
    /\ UNCHANGED <<args, aside, i, results, target_commit_map>>

\* one lookup of _ref_exists and what _compare_in_project does with its end
Lookup(kind) ==
    /\ LET outcome == remote[projects[i].id][RefOf(resolving)][kind]
           verdict == AfterLookup(kind, outcome)
       IN  /\ calls' = Append(calls, Call(kind, resolving))
           /\ CASE verdict = "next" ->
                     /\ pc' = NextKind(kind)
                     /\ UNCHANGED <<result, resolving>>
                [] verdict = "raise" ->
                     /\ result' = [result EXCEPT !.error = ExceptClause(outcome)]
                     /\ resolving' = ""
                     /\ pc' = "return"
                [] verdict = "true" ->
                     /\ result' = Resolved(result, resolving, TRUE)
                     /\ resolving' = IF resolving = "base" THEN "target" ELSE ""
                     /\ pc' = IF resolving = "base" THEN "get_tag" ELSE "list_target"
                [] verdict = "false" ->
                     /\ result' = Resolved(result, resolving, FALSE)
                     /\ resolving' = ""
                     /\ pc' = "return"
    /\ UNCHANGED <<args, aside, i, results, target_commit_map>>

TryTag ==
    /\ pc = "get_tag"
    /\ Lookup("get_tag")

TryBranch ==
    /\ pc = "get_branch"
    /\ Lookup("get_branch")

TryCommit ==
    /\ pc = "get_commit"
    /\ Lookup("get_commit")

\* mutant of ListTarget: a listing that fails is recorded and the base is
\* listed all the same
ListTargetGoesOn ==
    /\ pc = "list_target"
    /\ LET answer == remote[projects[i].id][target_ref].list_commits_from_ref
       IN  /\ calls' = Append(calls, Call("list_commits_from_ref", "target"))
           /\ IF answer.status = "ok"
              THEN /\ target_commit_map' = CommitMap(answer.items)
                   /\ UNCHANGED result
              ELSE /\ result' = [result EXCEPT !.error = ExceptClause(answer.status)]
                   /\ UNCHANGED target_commit_map
    /\ pc' = "list_base"
    /\ UNCHANGED <<args, aside, i, results, resolving>>

\* step 3: list the target's commits and build target_commit_map; an
\* exception of list_commits_from_ref goes to the except clauses and what
\* _get_paginated had collected is lost with it
ListTarget ==
    /\ pc = "list_target"
    /\ LET answer == remote[projects[i].id][target_ref].list_commits_from_ref
       IN  /\ calls' = Append(calls, Call("list_commits_from_ref", "target"))
           /\ IF answer.status = "ok"
              THEN /\ target_commit_map' = CommitMap(answer.items)
                   /\ pc' = "list_base"
                   /\ UNCHANGED result
              ELSE /\ result' = [result EXCEPT !.error = ExceptClause(answer.status)]
                   /\ pc' = "return"
                   /\ UNCHANGED target_commit_map
    /\ UNCHANGED <<args, aside, i, results, resolving>>

\* mutant of ListBase: when the two references are one and the same, the
\* target's listing is used again and no second listing is made
ListBaseOnce ==
    /\ pc = "list_base"
    /\ LET answer == remote[projects[i].id][base_ref].list_commits_from_ref
       IN  /\ calls' = IF base_ref = target_ref THEN calls
                        ELSE Append(calls, Call("list_commits_from_ref", "base"))
           /\ IF answer.status = "ok"
              THEN \E order \in Orders(DeltaShas(DOMAIN target_commit_map,
                                                 ShaSet(answer.items))) :
                     result' \in Compared(result, target_commit_map, answer.items,
                                           order, after_date, before_date)
              ELSE result' = [result EXCEPT !.error = ExceptClause(answer.status)]
    /\ pc' = "return"
    /\ UNCHANGED <<args, aside, i, results, resolving, target_commit_map>>

\* steps 4 to 7: list the base's commits, take the difference, filter, sort
ListBase ==
    /\ pc = "list_base"
    /\ LET answer == remote[projects[i].id][base_ref].list_commits_from_ref
       IN  /\ calls' = Append(calls, Call("list_commits_from_ref", "base"))
           /\ IF answer.status = "ok"
              THEN \E order \in Orders(DeltaShas(DOMAIN target_commit_map,
                                                 ShaSet(answer.items))) :
                     result' \in Compared(result, target_commit_map, answer.items,
                                           order, after_date, before_date)
              ELSE result' = [result EXCEPT !.error = ExceptClause(answer.status)]
    /\ pc' = "return"
    /\ UNCHANGED <<args, aside, i, results, resolving, target_commit_map>>

\* mutant of Return: a result carrying an error is not appended
ReturnUnlessError ==
    /\ pc = "return"
    /\ results' = IF result.error = None THEN Append(results, result) ELSE results
    /\ i' = i + 1
    /\ result' = NoResult
    /\ target_commit_map' = EmptyMap
    /\ pc' = "loop"
    /\ UNCHANGED <<args, aside, resolving, calls>>

\* _compare_in_project returns; find_deltas appends and goes to the next project
Return ==
    /\ pc = "return"
    /\ results' = Append(results, result)
    /\ i' = i + 1
    /\ result' = NoResult
    /\ target_commit_map' = EmptyMap
    /\ pc' = "loop"
    /\ UNCHANGED <<args, aside, resolving, calls>>

\* the loop is exhausted: find_deltas returns results and the caller binds
\* them to deltas
Finish ==
    /\ pc = "loop"
    /\ i > Len(projects)
    /\ pc' = "done"
    /\ deltas' = Bound(results)
    /\ UNCHANGED <<args, summaries, paging, i, results, resolving, result, target_commit_map, calls>>

\* KeyboardInterrupt arrives while find_deltas runs: no except clause of
\* _compare_in_project or find_deltas catches it, handle_delta_command does
\* and exits with status 130; deltas was never assigned
Interrupt ==
    /\ pc \in {"loop", "get_tag", "get_branch", "get_commit", "list_target",
               "list_base", "return"}
    /\ pc' = "exit130"
    /\ UNCHANGED <<args, aside, i, results, resolving, result,
                   target_commit_map, calls>>

\* handle_delta_command (or any holder of the list) calls generate_summary
Summarize ==
    /\ pc = "done"
    /\ deltas.bound
    /\ Len(summaries) < MaxSummaries
    /\ summaries' = Append(summaries, generate_summary(deltas.value))
    /\ UNCHANGED <<args, paging, pc, i, results, resolving, result,
                   target_commit_map, calls, deltas>>

Next ==
    \/ CompareBegin
    \/ TryTag
    \/ TryBranch
    \/ TryCommit
    \/ ListTarget
    \/ ListBase
    \/ Return
    \/ Finish
    \/ Interrupt
    \/ Summarize

\* ---------------------------------------------------- handle_delta_command
\* mutant of CheckProjects: the list is handed to the finder unchecked
CheckProjectsSkipped ==
    /\ pc = "cli"
    /\ pc' = "loop"
    /\ UNCHANGED <<args, aside, i, results, resolving, result,
                   target_commit_map, calls>>

\* the list of projects as it stands after step 3a: `if not projects:
\* sys.exit(1)`, else the finder is built and find_deltas entered
CheckProjects ==
    /\ pc = "cli"
    /\ pc' = IF projects = <<>> THEN "exit1" ELSE "loop"
    /\ UNCHANGED <<args, aside, i, results, resolving, result,
                   target_commit_map, calls>>

NextCli ==
    \/ CheckProjects
    \/ Next

\* ---------------------------------------------------------- _get_paginated
\* the decimal numerals a next-page header can carry, Numerals[n] for n
Numerals == <<"1", "2", "3", "4", "5", "6">>

\* int(s) of a numeral
IntOf(s) == CHOOSE n \in DOMAIN Numerals : Numerals[n] = s

NoHeaders == [h \in {} |-> ""]

NextPageHeader(marker) == [h \in {"x-next-page"} |-> marker]

\* what _make_request answers for params["page"] = n: past the last page the
\* remote answers an empty list
PageAt(n) ==
    IF n \in DOMAIN pages THEN pages[n]
    ELSE [status |-> "ok", items |-> <<>>, headers |-> NoHeaders]

\* mutant of HasNext: an empty next-page header counts as a next page
HasNextIfPresent(headers) == "x-next-page" \in DOMAIN headers

\* "x-next-page" in response.headers and response.headers["x-next-page"]
HasNext(headers) ==
    "x-next-page" \in DOMAIN headers /\ headers["x-next-page"] # ""

\* _get_paginated is entered: params["page"] = 1, all_items = []
PaginateBegin ==
    /\ pc = "get_paginated"
    /\ page' = 1
    /\ all_items' = <<>>
    /\ pc' = "request"
    /\ UNCHANGED <<args, i, results, resolving, result, target_commit_map,
                   calls, deltas, summaries, pages, fetched>>

\* mutant of FetchPage: an empty page does not end the loop, its header is
\* followed like that of any page
FetchPageNoBreak ==
    /\ pc = "request"
    /\ Len(fetched) < MaxFetches
    /\ fetched' = Append(fetched, page)
    /\ LET response == PageAt(page)
       IN  IF response.status # "ok"
           THEN /\ pc' = "raised"
                /\ UNCHANGED <<page, all_items>>
           ELSE /\ all_items' = all_items \o response.items
                /\ IF ~HasNext(response.headers)
                   THEN /\ pc' = "returned"
                        /\ UNCHANGED page
                   ELSE IF response.headers["x-next-page"] \in Range(Numerals)
                   THEN /\ page' = IntOf(response.headers["x-next-page"])
                        /\ pc' = "request"
                   ELSE /\ pc' = "raised"
                        /\ UNCHANGED page
    /\ UNCHANGED <<args, i, results, resolving, result, target_commit_map,
                   calls, deltas, summaries, pages>>

\* one turn of the while loop: request the page, extend, follow the header.
\* An exception of _make_request or of int() leaves _get_paginated
FetchPage ==
    /\ pc = "request"
    /\ Len(fetched) < MaxFetches
    /\ fetched' = Append(fetched, page)
    /\ LET response == PageAt(page)
       IN  IF response.status # "ok"
           THEN /\ pc' = "raised"
                /\ UNCHANGED <<page, all_items>>
           ELSE IF response.items = <<>>
           THEN /\ pc' = "returned"
                /\ UNCHANGED <<page, all_items>>
           ELSE /\ all_items' = all_items \o response.items
                /\ IF ~HasNext(response.headers)
                   THEN /\ pc' = "returned"
                        /\ UNCHANGED page
                   ELSE IF response.headers["x-next-page"] \in Range(Numerals)
                   THEN /\ page' = IntOf(response.headers["x-next-page"])
                        /\ pc' = "request"
                   ELSE /\ pc' = "raised"
                        /\ UNCHANGED page
    /\ UNCHANGED <<args, i, results, resolving, result, target_commit_map,
                   calls, deltas, summaries, pages>>

NextPaging ==
    \/ PaginateBegin
    \/ FetchPage

\* ------------------------------------------------------------------ MRFinder
\* an element of a JSON answer that is not an object (a null)
NotAnObject == [json |-> "null"]

AttributeErrorText == "'NoneType' object has no attribute 'get'"

MRResult(project, state) ==
    [project_id     |-> project.id,
     project_path   |-> project.path_with_namespace,
     state_filter   |-> state,
     merge_requests |-> <<>>,
     total_mrs      |-> 0,
     error          |-> None]

\* MergeRequest.from_api_response, for an element that is an object
from_api_response(data) ==
    [mr_id  |-> Get(data, "id", 0),
     mr_iid |-> Get(data, "iid", 0),
     title  |-> Get(data, "title", ""),
     state  |-> Get(data, "state", "")]

\* the except clauses of _fetch_project_mrs
MRExceptClause(outcome, text) ==
    CASE outcome = "notfound" -> "Project not found: " \o text
      [] outcome = "apierror" -> "API error: " \o text
      [] OTHER                -> "Unexpected error: " \o text

\* _fetch_project_mrs: the MRResult of one project.  The list of
\* MergeRequests is assigned once every element is converted; an exception
\* before that leaves the result with its defaults and the error
_fetch_project_mrs(project, state) ==
    LET r       == MRResult(project, state)
        answer  == remote[project.id].list_merge_requests
        mr_data == answer.items
    IN  IF answer.status # "ok"
        THEN [r EXCEPT !.error = MRExceptClause(answer.status,
                                                ExcText(answer.status))]
        ELSE IF \E k \in DOMAIN mr_data : mr_data[k] = NotAnObject
        THEN [r EXCEPT !.error = MRExceptClause("exception", AttributeErrorText)]
        ELSE [r EXCEPT
                !.merge_requests = [k \in DOMAIN mr_data |->
                                       from_api_response(mr_data[k])],
                !.total_mrs = Len(mr_data)]

\* mutant of FetchProjectMrs: a project whose fetch failed ends the loop
FetchProjectMrsUntilError ==
    /\ pc = "mr_loop"
    /\ i <= Len(projects)
    /\ LET fetched_result == _fetch_project_mrs(projects[i], "merged")
       IN  /\ result' = fetched_result
           /\ results' = Append(results, fetched_result)
           /\ pc' = IF fetched_result.error = None THEN "mr_loop" ELSE "mr_done"
    /\ calls' = Append(calls, [iteration  |-> i,
                               project_id |-> projects[i].id,
                               method     |-> "list_merge_requests"])
    /\ i' = i + 1
    /\ UNCHANGED <<args, aside, resolving, target_commit_map>>

\* one turn of the loop of find_merge_requests: _fetch_project_mrs for
\* project idx and the append of its result
FetchProjectMrs ==
    /\ pc = "mr_loop"
    /\ i <= Len(projects)
    /\ LET fetched_result == _fetch_project_mrs(projects[i], "merged")
       IN  /\ result' = fetched_result
           /\ results' = Append(results, fetched_result)
    /\ calls' = Append(calls, [iteration  |-> i,
                               project_id |-> projects[i].id,
                               method     |-> "list_merge_requests"])
    /\ i' = i + 1
    /\ UNCHANGED <<args, aside, pc, resolving, target_commit_map>>

\* the loop is exhausted: find_merge_requests returns results
ReturnMrs ==
    /\ pc = "mr_loop"
    /\ i > Len(projects)
    /\ pc' = "mr_done"
    /\ UNCHANGED <<args, aside, i, results, resolving, result,
                   target_commit_map, calls>>

NextMR ==
    \/ FetchProjectMrs
    \/ ReturnMrs

\* -------------------------------------------------------------- CommitFinder
\* the SHAs a caller hands to search_commits, as read from a file or typed
RawShas == {"", "  ", "abc", " abc ", "def"}

\* str.strip()
Strip(sha) ==
    CASE sha = "  "    -> ""
      [] sha = " abc " -> "abc"
      [] OTHER         -> sha

CommitSearchResult(commit_sha, project) ==
    [commit_sha   |-> commit_sha,
     project_id   |-> project.id,
     project_path |-> project.path_with_namespace,
     branches     |-> "",
     tags         |-> "",
     found        |-> FALSE,
     error        |-> ""]

SearchCall(method, commit_sha, project) ==
    [method |-> method, project_id |-> project.id, sha |-> commit_sha]

\* _search_commit_in_project: the result, the client calls made, and whether
\* an exception left the method.  GitLabNotFound is a GitLabAPIError: the
\* inner except clause catches both for list_commit_refs; an exception
\* outside that hierarchy is caught by neither try
_search_commit_in_project(commit_sha, project) ==
    LET r        == CommitSearchResult(commit_sha, project)
        answers  == remote[project.id][commit_sha]
        lookup   == <<SearchCall("get_commit", commit_sha, project)>>
        both     == Append(lookup, SearchCall("list_commit_refs", commit_sha, project))
    IN  CASE answers.get_commit = "notfound" ->
               [raised |-> FALSE, calls |-> lookup, result |-> r]
          [] answers.get_commit = "apierror" ->
               [raised |-> FALSE, calls |-> lookup,
                result |-> [r EXCEPT !.error = ExcText("apierror")]]
          [] answers.get_commit = "exception" ->
               [raised |-> TRUE, calls |-> lookup, result |-> r]
          [] OTHER ->
               CASE answers.list_commit_refs = "ok" ->
                      [raised |-> FALSE, calls |-> both,
                       result |-> [r EXCEPT !.found = TRUE,
                                            !.branches = "main",
                                            !.tags = "v1"]]
                 [] answers.list_commit_refs = "exception" ->
                      [raised |-> TRUE, calls |-> both,
                       result |-> [r EXCEPT !.found = TRUE]]
                 [] OTHER ->
                      [raised |-> FALSE, calls |-> both,
                       result |-> [r EXCEPT
                          !.found = TRUE,
                          !.error = "Could not fetch refs: "
                                       \o ExcText(answers.list_commit_refs)]]

\* mutant of KeepResult: only the results of commits found are kept
KeepResultFoundOnly(r) == r.found

\* if result.found or result.error
KeepResult(r) == r.found \/ r.error # ""

\* _search_commit_in_projects, from the k-th project on
RECURSIVE SearchInProjects(_, _)
SearchInProjects(commit_sha, k) ==
    IF k > Len(projects)
    THEN [raised |-> FALSE, calls |-> <<>>, results |-> <<>>]
    ELSE LET one == _search_commit_in_project(commit_sha, projects[k])
         IN  IF one.raised
             THEN [raised |-> TRUE, calls |-> one.calls, results |-> <<>>]
             ELSE LET rest == SearchInProjects(commit_sha, k + 1)
                  IN  [raised  |-> rest.raised,
                       calls   |-> one.calls \o rest.calls,
                       results |-> (IF KeepResult(one.result)
                                    THEN <<one.result>> ELSE <<>>)
                                      \o rest.results]

\* one turn of the loop of search_commits, for commit_list[i]
SearchCommit ==
    /\ pc = "search_loop"
    /\ i <= Len(commit_list)
    /\ LET commit_sha == Strip(commit_list[i])
           found_in   == SearchInProjects(commit_sha, 1)
       IN  IF commit_sha = ""
           THEN /\ i' = i + 1
                /\ UNCHANGED <<pc, results, calls>>
           ELSE /\ calls' = calls \o found_in.calls
                /\ IF found_in.raised
                   THEN /\ pc' = "raised"
                        /\ UNCHANGED <<i, results>>
                   ELSE /\ results' = results \o found_in.results
                        /\ i' = i + 1
                        /\ UNCHANGED pc
    /\ UNCHANGED <<args, aside, resolving, result, target_commit_map>>

\* the loop is exhausted: search_commits returns results
ReturnCommits ==
    /\ pc = "search_loop"
    /\ i > Len(commit_list)
    /\ pc' = "searched"
    /\ UNCHANGED <<args, aside, i, results, resolving, result,
                   target_commit_map, calls>>

NextSearch ==
    \/ SearchCommit
    \/ ReturnCommits

\* ----------------------------------------------------------- ProjectResolver
\* _parse_project_data: the four keys read from the project's JSON object
\* (name and web_url go along with the id)
_parse_project_data(proj_data) ==
    [id |-> proj_data.id, path_with_namespace |-> proj_data.path_with_namespace]

\* a dict keyed by project id, as the list of its values in insertion order
\* mutant of DictSet: the value is added whether or not the key is there
DictSetAppend(dict, info) == Append(dict, info)

\* projects[project_info.id] = project_info
DictSet(dict, info) ==
    IF \E k \in DOMAIN dict : dict[k].id = info.id
    THEN [k \in DOMAIN dict |-> IF dict[k].id = info.id THEN info ELSE dict[k]]
    ELSE Append(dict, info)

\* dict.update(other), and the loop `for proj_data in group_projects`
RECURSIVE DictUpdate(_, _)
DictUpdate(dict, other) ==
    IF other = <<>> THEN dict
    ELSE DictUpdate(DictSet(dict, other[1]), Tail(other))

ResolverCall(method, key) == [method |-> method, key |-> key]

\* one of the four loops: each key is fetched; an answer is parsed into the
\* dict, GitLabNotFound is logged and the loop goes on, any other exception
\* leaves the loop and the resolver
RECURSIVE Gather(_, _, _, _)
Gather(keys, method, answers, dict) ==
    IF keys = <<>>
    THEN [raised |-> FALSE, calls |-> <<>>, projects |-> dict]
    ELSE LET answer == answers[keys[1]]
             call   == <<ResolverCall(method, keys[1])>>
             parsed == [k \in DOMAIN answer.items |->
                          _parse_project_data(answer.items[k])]
             rest   == Gather(Tail(keys), method, answers,
                              IF answer.status = "ok"
                              THEN DictUpdate(dict, parsed) ELSE dict)
         IN  IF answer.status \in {"ok", "notfound"}
             THEN [rest EXCEPT !.calls = call \o rest.calls]
             ELSE [raised |-> TRUE, calls |-> call, projects |-> dict]

\* two loops in a row over one dict
Gathered(first, second) ==
    IF first.raised THEN first
    ELSE [second EXCEPT !.calls = first.calls \o second.calls]

_discover_from_groups ==
    LET by_id == Gather(config.groups.by_id, "list_group_projects",
                        remote.group_projects_by_id, <<>>)
    IN  Gathered(by_id,
                 Gather(config.groups.by_path, "list_group_projects",
                        remote.group_projects_by_path, by_id.projects))

_get_explicit_projects ==
    LET by_id == Gather(config.projects.by_id, "get_project_by_id",
                        remote.project_by_id, <<>>)
    IN  Gathered(by_id,
                 Gather(config.projects.by_path, "get_project_by_path",
                        remote.project_by_path, by_id.projects))

_apply_filters(list) ==
    LET include_paths == config.filters.include_project_paths
        exclude_paths == config.filters.exclude_project_paths
        included(p) == p.path_with_namespace \in Range(include_paths)
        kept(p)     == p.path_with_namespace \notin Range(exclude_paths)
        after_include == IF include_paths # <<>>
                         THEN SelectSeq(list, included) ELSE list
    IN  IF exclude_paths # <<>> THEN SelectSeq(after_include, kept)
        ELSE after_include

\* resolve_projects before the filters: the dict, the calls, and whether an
\* exception left the method
Resolution ==
    IF config.scan.mode = "auto_discover"
    THEN LET discovered == _discover_from_groups
             explicit   == _get_explicit_projects
         IN  IF discovered.raised THEN discovered
             ELSE IF config.projects.by_id # <<>> \/ config.projects.by_path # <<>>
             THEN [raised   |-> explicit.raised,
                   calls    |-> discovered.calls \o explicit.calls,
                   projects |-> DictUpdate(DictUpdate(<<>>, discovered.projects),
                                           explicit.projects)]
             ELSE [discovered EXCEPT
                      !.projects = DictUpdate(<<>>, discovered.projects)]
    ELSE LET explicit == _get_explicit_projects
         IN  [explicit EXCEPT !.projects = DictUpdate(<<>>, explicit.projects)]

\* projects = resolve_projects(config, client) in a command handler
ResolveProjects ==
    /\ pc = "resolve"
    /\ calls' = calls \o Resolution.calls
    /\ IF Resolution.raised
       THEN /\ pc' = "raised"
            /\ UNCHANGED projects
       ELSE /\ projects' = _apply_filters(Resolution.projects)
            /\ pc' = "resolved"
    /\ UNCHANGED <<remote, commit_list, config, base_ref, target_ref,
                   after_date, before_date, aside, i, results, resolving,
                   result, target_commit_map>>

\* --------------------------------------------------------- initial states
Listing(status, items) == [status |-> status, items |-> items]

RefRemote(tag, branch, commit, listing) ==
    [get_tag |-> tag, get_branch |-> branch, get_commit |-> commit,
     list_commits_from_ref |-> listing]

Commit(id, date) ==
    [id |-> id, author_name |-> "ann", committed_date |-> date, parent_ids |-> <<>>]

\* a reference that resolves as a tag and lists `items`
Plain(items) == RefRemote("ok", "notfound", "notfound", Listing("ok", items))

\* no CommitFinder and no ProjectResolver is modelled
NoConfig == [scan |-> [mode |-> ""]]

Unused ==
    /\ commit_list = <<>>
    /\ config = NoConfig

\* no _get_paginated run is modelled
NotPaging ==
    /\ pages = <<>>
    /\ page = 0
    /\ all_items = <<>>
    /\ fetched = <<>>

\* find_deltas is entered: nothing compared yet
Entered ==
    /\ pc = "loop"
    /\ i = 1
    /\ results = <<>>
    /\ resolving = ""
    /\ result = NoResult
    /\ target_commit_map = EmptyMap
    /\ calls = <<>>
    /\ deltas = Unbound
    /\ summaries = <<>>
    /\ NotPaging
    /\ Unused

\* Spec: a list of NumProjects projects over two remotes; in each project at
\* least one of the two references is a plain tag, the other one resolves or
\* fails in one of the ways below.  The items of a listing that fails are the
\* records of the pages fetched before the request that failed
Troubled(items) ==
    {Plain(items),
     RefRemote("notfound", "notfound", "notfound", Listing("notfound", <<>>)),
     RefRemote("notfound", "ok", "notfound", Listing("ok", items)),
     RefRemote("apierror", "ok", "notfound", Listing("ok", items)),
     RefRemote("apierror", "apierror", "apierror", Listing("apierror", <<>>)),
     RefRemote("exception", "notfound", "notfound", Listing("ok", items)),
     RefRemote("ok", "notfound", "notfound", Listing("notfound", <<>>)),
     RefRemote("ok", "notfound", "notfound", Listing("apierror", items)),
     RefRemote("ok", "notfound", "notfound", Listing("exception", <<>>))}

BaseItems == <<>>

TargetItems == <<Commit("A", 1), Commit("B", 1)>>

ProjectRemotes ==
    {r \in [Refs -> Troubled(BaseItems) \cup Troubled(TargetItems)] :
        /\ r["v1"] \in Troubled(BaseItems)
        /\ r["v2"] \in Troubled(TargetItems)
        /\ r["v1"] = Plain(BaseItems) \/ r["v2"] = Plain(TargetItems)}

Init ==
    /\ remote \in [ProjectIds -> ProjectRemotes]
    /\ projects \in [1..NumProjects -> {ProjectInfo(id) : id \in ProjectIds}]
    /\ base_ref = "v1"
    /\ target_ref = "v2"
    /\ after_date = EmptyStr
    /\ before_date = EmptyStr
    /\ Entered

Spec == Init /\ [][Next]_vars

\* SpecRef: one project, every combination of lookup outcomes for the two
\* references, which may also be one and the same reference
LookupRemotes(items) ==
    {RefRemote(t, b, c, Listing("ok", items)) : t \in Outcomes, b \in Outcomes,
                                                 c \in Outcomes}

InitRef ==
    /\ projects = <<ProjectInfo(1)>>
    /\ base_ref = "v1"
    /\ target_ref \in Refs
    /\ \E r1 \in LookupRemotes(BaseItems), r2 \in LookupRemotes(TargetItems) :
         /\ target_ref = base_ref => r2.get_tag = "ok" /\ r2.get_branch = "ok"
                                     /\ r2.get_commit = "ok"
         /\ remote = [p \in ProjectIds |-> [ref \in Refs |->
                        IF ref = "v1" THEN r1 ELSE r2]]
    /\ after_date = EmptyStr
    /\ before_date = EmptyStr
    /\ Entered

SpecRef == InitRef /\ [][Next]_vars

\* SpecDelta: one project whose references resolve, every listing of up to
\* MaxListLen commits for each, with and without a date window; the
\* references that resolve as a branch or as a commit list one commit at most
Resolving(items) ==
    {Plain(items)}
    \cup (IF Len(items) <= 1
          THEN {RefRemote("notfound", "ok", "notfound", Listing("ok", items)),
                RefRemote("notfound", "notfound", "ok", Listing("ok", items))}
          ELSE {})

DateValues == Dates \cup {EmptyStr}

DatedCommits ==
    {[id |-> h, author_name |-> "ann", committed_date |-> d] :
        h \in Hashes, d \in DateValues \cup {Null}}
    \cup {[id |-> h, author_name |-> "ann"] : h \in Hashes}

LinkedCommits ==
    {[id |-> h, author_name |-> "ann", committed_date |-> 1, parent_ids |-> ps] :
        h \in Hashes, ps \in {<<>>, <<"A">>, <<"B", "A">>}}

AnyRefRemote ==
    [get_tag : Outcomes, get_branch : Outcomes, get_commit : Outcomes,
     list_commits_from_ref :
        [status : Outcomes,
         items : SeqsUpTo(DatedCommits \cup LinkedCommits, MaxListLen)]]

\* what a reference of SpecDelta answers: it resolves and lists `items`, or it
\* fails at a lookup or at the listing
Failing ==
    {RefRemote("notfound", "notfound", "notfound", Listing("notfound", <<>>)),
     RefRemote("exception", "notfound", "notfound", Listing("notfound", <<>>)),
     RefRemote("ok", "notfound", "notfound", Listing("apierror", <<>>)),
     RefRemote("ok", "notfound", "notfound", Listing("exception", <<>>))}

BaseRemotes(kinds) ==
    Failing \cup UNION {Resolving(items) \cap kinds :
        items \in SeqsUpTo({Commit(h, 1) : h \in Hashes}, MaxListLen)}

TargetRemotes(kinds, windowed) ==
    Failing \cup UNION {Resolving(items) \cap kinds :
        items \in SeqsUpTo(DatedCommits, MaxListLen)
                  \cup (IF windowed THEN {}
                        ELSE SeqsUpTo(LinkedCommits, MaxListLen))}

DeltaRemote(kinds) ==
    /\ base_ref = "v1"
    /\ target_ref = "v2"
    /\ after_date \in DateValues
    /\ before_date \in DateValues
    /\ \E r1 \in BaseRemotes(kinds),
          r2 \in TargetRemotes(kinds, Truthy(after_date) \/ Truthy(before_date)) :
         /\ r1.get_tag = r2.get_tag \/ r1 \in Failing \/ r2 \in Failing
         /\ r1.get_branch = r2.get_branch \/ r1 \in Failing \/ r2 \in Failing
         /\ ~(r1 \in Failing /\ r2 \in Failing)
         /\ remote = [p \in ProjectIds |-> [ref \in Refs |->
                        IF ref = "v1" THEN r1 ELSE r2]]

InitDelta ==
    /\ projects = <<ProjectInfo(1)>>
    /\ DeltaRemote(AnyRefRemote)
    /\ Entered

SpecDelta == InitDelta /\ [][Next]_vars

\* SpecTwice: the remotes and arguments of SpecDelta with references that
\* resolve as tags, the one project listed twice, so that _compare_in_project
\* runs twice with the same arguments
InitTwice ==
    /\ projects = <<ProjectInfo(1), ProjectInfo(1)>>
    /\ DeltaRemote({r \in AnyRefRemote : r.get_tag = "ok"})
    /\ Entered

SpecTwice == InitTwice /\ [][Next]_vars

\* SpecSummary: generate_summary called on a list of DeltaResults, short
\* lists of every kind of result and lists of more than TopN results
Authored(sha, name) ==
    DeltaCommit([id |-> sha, author_name |-> name, committed_date |-> 1])

Unauthored(sha) == DeltaCommit([id |-> sha, committed_date |-> 1])

\* the commit lists and errors of the DeltaResults summarised
ResultKinds ==
    {[commits |-> <<>>, error |-> None],
     [commits |-> <<>>, error |-> ExceptClause("apierror")],
     [commits |-> <<Authored("A", "ann")>>, error |-> None],
     [commits |-> <<Authored("B", "bob")>>, error |-> None],
     [commits |-> <<Unauthored("A")>>, error |-> None],
     [commits |-> <<Authored("A", "ann"), Authored("B", "bob")>>, error |-> None],
     [commits |-> <<Authored("A", "ann"), Authored("B", "ann")>>,
      error |-> "Unexpected error: " \o TypeErrorText]}

\* ten results with changes, of one and of two commits in turn
Pad ==
    [k \in 1..TopN |->
        IF k % 2 = 1
        THEN [commits |-> <<Authored("A", "ann")>>, error |-> None]
        ELSE [commits |-> <<Authored("A", "ann"), Authored("B", "ann")>>,
              error |-> None]]

PathNames ==
    <<"group/p01", "group/p02", "group/p03", "group/p04", "group/p05",
      "group/p06", "group/p07", "group/p08", "group/p09", "group/p10",
      "group/p11", "group/p12", "group/p13", "group/p14">>

\* the DeltaResults of projects 1, 2, ... with the given commits and errors
Summarised(kinds) ==
    [k \in DOMAIN kinds |->
        [DeltaResult([id |-> k, path_with_namespace |-> PathNames[k]], "v1", "v2")
            EXCEPT !.base_exists = TRUE,
                   !.target_exists = TRUE,
                   !.commits = kinds[k].commits,
                   !.total_commits = Len(kinds[k].commits),
                   !.target_commit_count = Len(kinds[k].commits),
                   !.error = kinds[k].error]]

SummaryInputs ==
    {Summarised(kinds) : kinds \in SeqsUpTo(ResultKinds, 3)}
    \cup {Summarised(a \o Pad \o b) : a, b \in SeqsUpTo(ResultKinds, 1)}

InitSummary ==
    /\ remote = <<>>
    /\ projects = <<>>
    /\ base_ref = "v1"
    /\ target_ref = "v2"
    /\ after_date = EmptyStr
    /\ before_date = EmptyStr
    /\ pc = "done"
    /\ i = 1
    /\ results = <<>>
    /\ resolving = ""
    /\ result = NoResult
    /\ target_commit_map = EmptyMap
    /\ calls = <<>>
    /\ deltas \in {Bound(ds) : ds \in SummaryInputs}
    /\ summaries = <<>>
    /\ NotPaging
    /\ Unused

SpecSummary == InitSummary /\ [][Summarize]_vars

\* SpecPaging: one run of _get_paginated against an endpoint of MaxPage
\* pages; a page fails, or answers up to two items of its own and any
\* next-page header
PageItems(n) ==
    <<<<>>, <<[id |-> 10 * n + 1]>>, <<[id |-> 10 * n + 1], [id |-> 10 * n + 2]>>>>

Markers == {"", "x"} \cup {Numerals[n] : n \in 1..MaxPage + 1}

\* a page by the number of its items (-1: the request fails) and its headers
PageAnswer(n, size, headers) ==
    IF size < 0
    THEN [status |-> "apierror", items |-> <<>>, headers |-> NoHeaders]
    ELSE [status |-> "ok", items |-> PageItems(n)[size + 1], headers |-> headers]

PageShapes ==
    {[size |-> -1, headers |-> NoHeaders]}
    \cup [size : 0..2,
          headers : {NoHeaders} \cup {NextPageHeader(m) : m \in Markers}]

InitPaging ==
    /\ remote = <<>>
    /\ projects = <<>>
    /\ base_ref = "v1"
    /\ target_ref = "v2"
    /\ after_date = EmptyStr
    /\ before_date = EmptyStr
    /\ pc = "get_paginated"
    /\ i = 1
    /\ results = <<>>
    /\ resolving = ""
    /\ result = NoResult
    /\ target_commit_map = EmptyMap
    /\ calls = <<>>
    /\ deltas = Unbound
    /\ summaries = <<>>
    /\ \E shapes \in [1..MaxPage -> PageShapes] :
         pages = [n \in 1..MaxPage |->
                    PageAnswer(n, shapes[n].size, shapes[n].headers)]
    /\ page = 0
    /\ all_items = <<>>
    /\ fetched = <<>>
    /\ Unused

SpecPaging == InitPaging /\ [][NextPaging]_vars

\* SpecPagingFair: the runs over pages of one item at most, where the loop
\* goes on as long as it can: a request that is issued is answered and the
\* turn of the loop completes
InitPagingFair ==
    /\ InitPaging
    /\ \A n \in DOMAIN pages : Len(pages[n].items) <= 1

SpecPagingFair == InitPagingFair /\ [][NextPaging]_vars /\ WF_vars(NextPaging)

\* SpecCli: handle_delta_command from the point where the project list is
\* settled, lists of no project up to NumProjects projects; the base resolves
\* as a tag and lists nothing
InitCli ==
    /\ remote \in [ProjectIds -> {r \in ProjectRemotes : r["v1"] = Plain(BaseItems)}]
    /\ projects \in SeqsUpTo({ProjectInfo(id) : id \in ProjectIds}, NumProjects)
    /\ base_ref = "v1"
    /\ target_ref = "v2"
    /\ after_date = EmptyStr
    /\ before_date = EmptyStr
    /\ pc = "cli"
    /\ i = 1
    /\ results = <<>>
    /\ resolving = ""
    /\ result = NoResult
    /\ target_commit_map = EmptyMap
    /\ calls = <<>>
    /\ deltas = Unbound
    /\ summaries = <<>>
    /\ NotPaging
    /\ Unused

SpecCli == InitCli /\ [][NextCli]_vars

\* SpecMR: find_merge_requests over NumProjects projects of two remotes; a
\* remote answers list_merge_requests with up to two merge requests, with an
\* element that is no object, or with an exception
MRData(n) == [id |-> 100 + n, iid |-> n, title |-> "fix", state |-> "merged"]

MRAnswers ==
    {Listing("ok", <<>>),
     Listing("ok", <<MRData(1)>>),
     Listing("ok", <<MRData(1), MRData(2)>>),
     Listing("ok", <<MRData(1), NotAnObject>>),
     Listing("notfound", <<>>),
     Listing("apierror", <<>>),
     Listing("exception", <<>>)}

InitMR ==
    /\ remote \in [ProjectIds -> [list_merge_requests : MRAnswers]]
    /\ projects \in [1..NumProjects -> {ProjectInfo(id) : id \in ProjectIds}]
    /\ base_ref = ""
    /\ target_ref = ""
    /\ after_date = EmptyStr
    /\ before_date = EmptyStr
    /\ pc = "mr_loop"
    /\ i = 1
    /\ results = <<>>
    /\ resolving = ""
    /\ result = NoResult
    /\ target_commit_map = EmptyMap
    /\ calls = <<>>
    /\ deltas = Unbound
    /\ summaries = <<>>
    /\ NotPaging
    /\ Unused

SpecMR == InitMR /\ [][NextMR]_vars

\* SpecSearch: search_commits for up to MaxListLen SHAs over two projects;
\* for "abc" a project answers in every way, for "def" it has the commit or
\* has not
ShaAnswers ==
    {[get_commit |-> "ok", list_commit_refs |-> "ok"],
     [get_commit |-> "ok", list_commit_refs |-> "notfound"],
     [get_commit |-> "ok", list_commit_refs |-> "apierror"],
     [get_commit |-> "ok", list_commit_refs |-> "exception"],
     [get_commit |-> "notfound", list_commit_refs |-> "notfound"],
     [get_commit |-> "apierror", list_commit_refs |-> "apierror"],
     [get_commit |-> "exception", list_commit_refs |-> "exception"]}

SearchRemotes ==
    {r \in [{"abc", "def"} -> ShaAnswers] :
        r["def"].get_commit \in {"ok", "notfound"}
        /\ r["def"].list_commit_refs = r["def"].get_commit}

InitSearch ==
    /\ remote \in [ProjectIds -> SearchRemotes]
    /\ projects = <<ProjectInfo(1), ProjectInfo(2)>>
    /\ commit_list \in SeqsUpTo(RawShas, MaxListLen)
    /\ config = NoConfig
    /\ base_ref = ""
    /\ target_ref = ""
    /\ after_date = EmptyStr
    /\ before_date = EmptyStr
    /\ pc = "search_loop"
    /\ i = 1
    /\ results = <<>>
    /\ resolving = ""
    /\ result = NoResult
    /\ target_commit_map = EmptyMap
    /\ calls = <<>>
    /\ deltas = Unbound
    /\ summaries = <<>>
    /\ NotPaging

SpecSearch == InitSearch /\ [][NextSearch]_vars

\* SpecResolve: resolve_projects for configurations of both modes that pass
\* AppConfig's validation, over a remote with two groups by id, one by path
\* and two projects, each of them in several groups
ProjectData(id) ==
    [id |-> id, path_with_namespace |-> ProjectInfo(id).path_with_namespace,
     default_branch |-> "main"]

GroupIds == {10, 20}

ResolveRemotes ==
    [group_projects_by_id :
        {g \in [GroupIds -> [status : Outcomes,
                             items : {<<>>, <<ProjectData(1), ProjectData(2)>>,
                                      <<ProjectData(2), ProjectData(1)>>}]] :
            /\ g[10].status \in {"ok", "notfound", "apierror"}
            /\ g[20].status \in {"ok", "notfound", "exception"}
            /\ g[10].items = (IF g[10].status = "ok"
                              THEN <<ProjectData(1), ProjectData(2)>> ELSE <<>>)
            /\ g[20].items = (IF g[20].status = "ok"
                              THEN <<ProjectData(2), ProjectData(1)>> ELSE <<>>)},
     group_projects_by_path :
        {[p \in {"grp"} |-> Listing("ok", <<ProjectData(1)>>)]},
     project_by_id :
        {[id \in ProjectIds |->
            IF id = 1 /\ o # "ok" THEN Listing(o, <<>>)
            ELSE Listing("ok", <<ProjectData(id)>>)] :
                o \in {"ok", "notfound", "apierror"}},
     project_by_path :
        {[path \in {"group/project1", "group/project2"} |->
            IF path = "group/project1" /\ o # "ok" THEN Listing(o, <<>>)
            ELSE Listing("ok", <<ProjectData(IF path = "group/project1"
                                             THEN 1 ELSE 2)>>)] :
                o \in {"ok", "notfound"}}]

Configs ==
    {c \in [scan : [mode : {"auto_discover", "explicit"}],
            groups : [by_id : {<<>>, <<10>>, <<10, 20>>, <<20, 10>>},
                      by_path : {<<>>, <<"grp">>}],
            projects : [by_id : {<<>>, <<1>>, <<2, 1>>, <<1, 1>>},
                        by_path : {<<>>, <<"group/project1">>,
                                   <<"group/project2">>}],
            filters : [include_project_paths : {<<>>, <<"group/project1">>},
                       exclude_project_paths : {<<>>, <<"group/project2">>}]] :
        /\ c.scan.mode = "auto_discover" =>
              c.groups.by_id # <<>> \/ c.groups.by_path # <<>>
        /\ c.scan.mode = "explicit" =>
              c.projects.by_id # <<>> \/ c.projects.by_path # <<>>}

InitResolve ==
    /\ remote \in ResolveRemotes
    /\ config \in Configs
    /\ projects = <<>>
    /\ commit_list = <<>>
    /\ base_ref = ""
    /\ target_ref = ""
    /\ after_date = EmptyStr
    /\ before_date = EmptyStr
    /\ pc = "resolve"
    /\ i = 1
    /\ results = <<>>
    /\ resolving = ""
    /\ result = NoResult
    /\ target_commit_map = EmptyMap
    /\ calls = <<>>
    /\ deltas = Unbound
    /\ summaries = <<>>
    /\ NotPaging

SpecResolve == InitResolve /\ [][ResolveProjects]_vars

\* ================================================================= claims
\* the DeltaResults _compare_in_project has returned so far
Returned == Range(results) \cup (IF pc = "return" THEN {result} ELSE {})

\* what the remote answered to a call of the log
OutcomeOf(c) ==
    IF c.method = "list_commits_from_ref"
    THEN remote[c.project_id][c.ref].list_commits_from_ref.status
    ELSE remote[c.project_id][c.ref][c.method]

\* the hashes the remote lists for a reference of a project
Listed(project_id, ref) ==
    {c.id : c \in Range(remote[project_id][ref].list_commits_from_ref.items)}

Shas(commits) == {c.commit_sha : c \in Range(commits)}

\* C1: find_deltas returns one result per input project, the k-th result
\* carrying the id and the path of the k-th project, whatever the client
\* answered for each project (success, not-found, API error, other exception).
C1_OneResultPerProject ==
    /\ \A k \in DOMAIN results :
         /\ k <= Len(projects)
         /\ results[k].project_id = projects[k].id
         /\ results[k].project_path = projects[k].path_with_namespace
    /\ pc = "done" => Len(results) = Len(projects)

C1_Witness ==
    /\ pc = "done"
    /\ \E j, k \in DOMAIN results :
         /\ j < k
         /\ results[j].error # None
         /\ results[k].error = None
         /\ has_changes(results[k])
         /\ projects[j] # projects[k]

\* C2: isolation.  What one project's answers alone determine: the lookups
\* of a reference answer in the order tag, branch, commit, the first "ok" or
\* foreign exception decides; then the target listing, then the base listing.
FirstAnswer(r) ==
    LET seq  == <<r.get_tag, r.get_branch, r.get_commit>>
        hits == {n \in 1..3 : seq[n] \in {"ok", "exception"}}
    IN  IF hits = {} THEN "absent"
        ELSE seq[CHOOSE n \in hits : \A m \in hits : n <= m]

Outcome(b, t, error, shas, same) ==
    [base_exists |-> b, target_exists |-> t, error |-> error, shas |-> shas,
     total_commits |-> Cardinality(shas), compare_same_ref |-> same]

ListingError(status) ==
    CASE status = "notfound"  -> "Resource not found: 404 Resource not found"
      [] status = "apierror"  -> "API error: API request failed: 500"
      [] status = "exception" -> "Unexpected error: boom"

\* without a date window
Expected(project) ==
    LET rb == remote[project.id][base_ref]
        rt == remote[project.id][target_ref]
        lb == rb.list_commits_from_ref
        lt == rt.list_commits_from_ref
    IN  CASE FirstAnswer(rb) = "exception" ->
               Outcome(FALSE, FALSE, "Unexpected error: boom", {}, FALSE)
          [] FirstAnswer(rb) = "absent" ->
               Outcome(FALSE, FALSE, "Base ref 'v1' not found in this project",
                       {}, FALSE)
          [] FirstAnswer(rb) = "ok" /\ FirstAnswer(rt) = "exception" ->
               Outcome(TRUE, FALSE, "Unexpected error: boom", {}, FALSE)
          [] FirstAnswer(rb) = "ok" /\ FirstAnswer(rt) = "absent" ->
               Outcome(TRUE, FALSE, "Target ref 'v2' not found in this project",
                       {}, FALSE)
          [] OTHER ->
               IF lt.status # "ok"
               THEN Outcome(TRUE, TRUE, ListingError(lt.status), {}, FALSE)
               ELSE IF lb.status # "ok"
               THEN Outcome(TRUE, TRUE, ListingError(lb.status), {}, FALSE)
               ELSE Outcome(TRUE, TRUE, None,
                            Listed(project.id, target_ref)
                              \ Listed(project.id, base_ref),
                            Listed(project.id, target_ref)
                              = Listed(project.id, base_ref))

Observed(r) ==
    [base_exists |-> r.base_exists, target_exists |-> r.target_exists,
     error |-> r.error, shas |-> Shas(r.commits),
     total_commits |-> r.total_commits, compare_same_ref |-> r.compare_same_ref]

IsLookup(c) == c.method \in {"get_tag", "get_branch", "get_commit"}

SameRun(a, b) == a.iteration = b.iteration /\ a.which = b.which

\* a client call of iteration k raised something other than not-found
Raised(k) ==
    \E n \in DOMAIN calls :
        calls[n].iteration = k /\ OutcomeOf(calls[n]) \in {"apierror", "exception"}

\* ... and no later lookup of the same reference answered affirmatively
RaisedUnrecovered(k) ==
    \E n \in DOMAIN calls :
        /\ calls[n].iteration = k
        /\ OutcomeOf(calls[n]) \in {"apierror", "exception"}
        /\ ~\E m \in DOMAIN calls :
              /\ m > n
              /\ IsLookup(calls[n]) /\ IsLookup(calls[m])
              /\ SameRun(calls[n], calls[m])
              /\ OutcomeOf(calls[m]) = "ok"

Isolated ==
    /\ \A k \in DOMAIN results :
         /\ Observed(results[k]) = Expected(projects[k])
         /\ Len(results[k].commits) = results[k].total_commits
    /\ pc = "done" => Len(results) = Len(projects)

C3_SetDifference ==
    \A r \in Returned :
        (is_successful(r) /\ ~Truthy(after_date) /\ ~Truthy(before_date)) =>
            /\ Shas(r.commits) = Listed(r.project_id, r.target_ref)
                                   \ Listed(r.project_id, r.base_ref)
            /\ Len(r.commits) = Cardinality(Shas(r.commits))

C3_Witness ==
    \E r \in Returned :
        /\ is_successful(r) /\ ~Truthy(after_date) /\ ~Truthy(before_date)
        /\ Len(r.commits) = 1
        /\ r.target_commit_count = 2
        /\ Range(r.commits[1].parent_ids)
             \cap Listed(r.project_id, r.base_ref) # {}

\* C4: a DeltaResult returned by _compare_in_project whose base_exists or
\* target_exists is false has no commits and a non-empty error.
C4_AbsentRefHasError ==
    \A r \in Returned :
        (~r.base_exists \/ ~r.target_exists) =>
            r.commits = <<>> /\ r.error # None /\ r.error # ""

C4_Witness ==
    \E r \in Range(results) :
        r.base_exists /\ ~r.target_exists /\ r.error = RefNotFound("target", "v2")

\* C5: in every DeltaResult returned by _compare_in_project, with or without
\* an error, the commit list is no longer than total_commits.
C5_CommitsWithinTotal ==
    \A r \in Returned : Len(r.commits) <= r.total_commits

C5_Witness ==
    \E r \in Returned :
        /\ Len(r.commits) = 1
        /\ r.total_commits = 2
        /\ Truthy(before_date)

\* C6: every commit of a DeltaResult lies in the date window.  As claimed,
\* for every committed_date a record can carry, a missing or empty one too:
C6_Original ==
    \A r \in Returned : \A c \in Range(r.commits) :
        /\ Truthy(after_date) => after_date <= c.committed_date
        /\ Truthy(before_date) => c.committed_date <= before_date

\* C6 as amended: every commit of a DeltaResult that has a non-empty
\* committed_date lies in the date window; a commit whose committed_date is
\* missing or empty is kept whatever the window.
C6_DatedCommitsInWindow ==
    \A r \in Returned : \A c \in Range(r.commits) :
        Truthy(c.committed_date) =>
            /\ Truthy(after_date) => after_date <= c.committed_date
            /\ Truthy(before_date) => c.committed_date <= before_date

C6_Witness ==
    \E r \in Returned :
        /\ Truthy(after_date) /\ Truthy(before_date)
        /\ r.total_commits = 2
        /\ Len(r.commits) = 1
        /\ Truthy(r.commits[1].committed_date)

\* C7: when both references exist and the hashes listed for the target are
\* the hashes listed for the base (both listings empty included), the result
\* has compare_same_ref set, no commits and total_commits = 0.
C7_EqualSetsSameRef ==
    \A r \in Returned :
        (is_successful(r) /\ Listed(r.project_id, r.target_ref)
                             = Listed(r.project_id, r.base_ref)) =>
            r.compare_same_ref /\ r.commits = <<>> /\ r.total_commits = 0

C7_Witness ==
    \E r \in Returned :
        /\ is_successful(r)
        /\ r.compare_same_ref
        /\ r.target_commit_count = 2
        /\ remote[r.project_id][r.target_ref].list_commits_from_ref.items
             # remote[r.project_id][r.base_ref].list_commits_from_ref.items

\* C8: two runs of _compare_in_project with the same arguments against the
\* same remote return the same commits (up to the order among equal
\* timestamps), the same total_commits, existence flags, compare_same_ref
\* and error.
SameCommits(a, b) == Len(a) = Len(b) /\ Range(a) = Range(b)

C8_Idempotent ==
    \A j, k \in DOMAIN results :
        projects[j] = projects[k] =>
            /\ SameCommits(results[j].commits, results[k].commits)
            /\ [results[j] EXCEPT !.commits = <<>>]
                 = [results[k] EXCEPT !.commits = <<>>]

C8_Witness ==
    /\ Len(results) >= 2
    /\ projects[1] = projects[2]
    /\ Len(results[1].commits) = 2
    /\ results[1].commits # results[2].commits

\* the DeltaResult of iteration k, returned or under construction
ResultOf(k) ==
    IF k <= Len(results) THEN results[k] ELSE IF k = i THEN result ELSE NoResult

\* what _ref_exists returned for the run a call belongs to
Flag(k, which) ==
    IF which = "base" THEN ResultOf(k).base_exists ELSE ResultOf(k).target_exists

RunCalls(k, which) ==
    {n \in DOMAIN calls : /\ IsLookup(calls[n])
                          /\ calls[n].iteration = k
                          /\ calls[n].which = which}

\* C9: _ref_exists looks up the tag, then the branch, then the commit; the
\* first lookup that succeeds makes it return true with no later kind tried;
\* three not-found answers make it return false.
C9_LookupOrder ==
    /\ \A n \in DOMAIN calls :
         LET c    == calls[n]
             prev == n > 1 /\ IsLookup(calls[n - 1]) /\ SameRun(calls[n - 1], c)
         IN  IsLookup(c) =>
               /\ c.method = "get_tag" => ~prev
               /\ c.method = "get_branch" =>
                    /\ prev
                    /\ calls[n - 1].method = "get_tag"
                    /\ OutcomeOf(calls[n - 1]) # "ok"
               /\ c.method = "get_commit" =>
                    /\ prev
                    /\ calls[n - 1].method = "get_branch"
                    /\ OutcomeOf(calls[n - 1]) # "ok"
               /\ OutcomeOf(c) = "ok" =>
                    /\ Flag(c.iteration, c.which)
                    /\ n < Len(calls) =>
                         ~(IsLookup(calls[n + 1]) /\ SameRun(calls[n + 1], c))
    /\ \A k \in 1..Len(projects), which \in {"base", "target"} :
         (/\ Cardinality(RunCalls(k, which)) = 3
          /\ \A n \in RunCalls(k, which) : OutcomeOf(calls[n]) = "notfound")
            => ~Flag(k, which)

C9_Witness ==
    /\ Len(calls) >= 3
    /\ calls[1].method = "get_tag" /\ OutcomeOf(calls[1]) = "notfound"
    /\ calls[2].method = "get_branch" /\ OutcomeOf(calls[2]) = "ok"
    /\ remote[1]["v1"].get_commit = "ok"
    /\ calls[3].method = "get_tag" /\ calls[3].which = "target"
    /\ ResultOf(1).base_exists

\* C10: a lookup that raises a non-404 GitLabAPIError is inconclusive: the
\* next kind is still tried; _ref_exists returns true only if some lookup
\* succeeded, and false when none did, whatever mix of not-found and API
\* errors the three lookups met.
C10_ApiErrorInconclusive ==
    /\ \A n \in DOMAIN calls :
         LET c == calls[n]
             next == IF c.method = "get_tag" THEN "get_branch" ELSE "get_commit"
         IN  (IsLookup(c) /\ OutcomeOf(c) = "apierror" /\ c.method # "get_commit")
               => IF n < Len(calls)
                  THEN /\ SameRun(calls[n + 1], c)
                       /\ calls[n + 1].method = next
                  ELSE pc = "exit130" \/ (pc = next /\ resolving = c.which)
    /\ \A k \in 1..Len(projects), which \in {"base", "target"} :
         /\ Flag(k, which) =>
              \E n \in RunCalls(k, which) : OutcomeOf(calls[n]) = "ok"
         /\ (/\ Cardinality(RunCalls(k, which)) = 3
             /\ \A n \in RunCalls(k, which) :
                  OutcomeOf(calls[n]) \in {"notfound", "apierror"})
              => ~Flag(k, which)

C10_Witness ==
    /\ Len(calls) >= 3
    /\ OutcomeOf(calls[1]) = "apierror"
    /\ OutcomeOf(calls[2]) = "apierror"
    /\ calls[3].method = "get_commit" /\ OutcomeOf(calls[3]) = "ok"
    /\ ResultOf(1).base_exists

\* the client calls of iteration k
CallsOf(k) == {n \in DOMAIN calls : calls[n].iteration = k}

\* an error text that includes str(e) of the exception a call raised
Carries(error, outcome) ==
    error \in {prefix \o ExcText(outcome) :
                 prefix \in {"Resource not found: ", "API error: ",
                             "Unexpected error: "}}

\* C11: _compare_in_project returns a DeltaResult whatever the lookups and
\* the listings answer, and whenever a call of the comparison raised a
\* GitLabAPIError or another exception, the result's error is set and
\* includes the text of such an exception.
C11_Original ==
    /\ pc = "done" => Len(results) = Len(projects)
    /\ \A k \in DOMAIN results :
         Raised(k) =>
            /\ results[k].error # None
            /\ \E n \in CallsOf(k) :
                  /\ OutcomeOf(calls[n]) \in {"apierror", "exception"}
                  /\ Carries(results[k].error, OutcomeOf(calls[n]))

\* C12: a result reports a reference as not found only when every lookup of
\* that reference answered not-found: an API error met while resolving is
\* never turned into "not found".
C12_Original ==
    \A k \in DOMAIN results : \A which \in {"base", "target"} :
        results[k].error = RefNotFound(which, RefOf(which)) =>
            \A n \in RunCalls(k, which) : OutcomeOf(calls[n]) = "notfound"

\* C13: when the base reference does not resolve, the result has
\* base_exists false and an error, and the comparison made no client call
\* but the lookups of the base; when the base resolves and the target does
\* not, the result has target_exists false and an error, and no commits
\* were listed.
C13_ShortCircuit ==
    \A k \in DOMAIN results :
        /\ ~results[k].base_exists =>
              /\ results[k].error # None
              /\ ~results[k].target_exists
              /\ \A n \in CallsOf(k) :
                    IsLookup(calls[n]) /\ calls[n].which = "base"
        /\ (results[k].base_exists /\ ~results[k].target_exists) =>
              /\ results[k].error # None
              /\ \A n \in CallsOf(k) : IsLookup(calls[n])

C13_Witness ==
    /\ pc = "done"
    /\ ~results[1].base_exists
    /\ results[1].error = RefNotFound("base", "v1")
    /\ Len(calls) = 3
    /\ target_ref = "v2"
    /\ remote[1]["v2"].get_tag = "ok"

\* the record the remote lists last under a hash
LastListed(project_id, ref, h) ==
    LET items == remote[project_id][ref].list_commits_from_ref.items
        k == CHOOSE k \in DOMAIN items :
                /\ items[k].id = h
                /\ \A m \in DOMAIN items : items[m].id = h => m <= k
    IN  items[k]

\* the timestamp is outside a bound that is set
FailsBound(d) ==
    \/ Truthy(after_date) /\ d < after_date
    \/ Truthy(before_date) /\ d > before_date

\* C14: on a successful comparison total_commits is the number of hashes
\* listed for the target and not for the base, whatever the date window.
\* As claimed, a delta commit is left out of commits exactly when its
\* committed_date (a string, the empty one of a missing date included)
\* fails a set bound:
C14_Original ==
    \A r \in Returned :
        is_successful(r) =>
            LET delta == Listed(r.project_id, r.target_ref)
                           \ Listed(r.project_id, r.base_ref)
            IN  /\ r.total_commits = Cardinality(delta)
                /\ \A h \in delta :
                     LET d == Get(LastListed(r.project_id, r.target_ref, h),
                                  "committed_date", EmptyStr)
                     IN  d # Null =>
                           (h \notin Shas(r.commits) <=> FailsBound(d))

\* C14 as amended: total_commits is the number of hashes listed for the
\* target and not for the base, whatever the date window, and a delta commit
\* is left out of commits exactly when its committed_date is a non-empty
\* string that fails a set bound (a commit with a missing, null or empty
\* committed_date is never left out).
C14_TotalIgnoresWindow ==
    \A r \in Returned :
        is_successful(r) =>
            LET delta == Listed(r.project_id, r.target_ref)
                           \ Listed(r.project_id, r.base_ref)
            IN  /\ r.total_commits = Cardinality(delta)
                /\ \A h \in delta :
                     LET d == Get(LastListed(r.project_id, r.target_ref, h),
                                  "committed_date", EmptyStr)
                     IN  h \notin Shas(r.commits) <=> (Truthy(d) /\ FailsBound(d))

C14_Witness ==
    \E r \in Returned :
        /\ is_successful(r)
        /\ Truthy(after_date) /\ ~Truthy(before_date)
        /\ r.total_commits = 2
        /\ r.commits = <<>>

\* C15: every DeltaResult returned by find_deltas that has an error has no
\* commits, an exception raised after commits were appended included.
C15_Original ==
    \A r \in Range(results) : r.error # None => r.commits = <<>>

\* C16: generate_summary on the results of find_deltas counts every result
\* in exactly one of projects_with_changes (commits), projects_with_errors
\* (error) and projects_without_changes (neither); the three counts are
\* non-negative and sum to total_projects = len(results).
C16_Original ==
    \A n \in DOMAIN summaries :
        LET s  == summaries[n]
            ds == deltas.value
        IN  /\ \A k \in DOMAIN ds : ~(has_changes(ds[k]) /\ ds[k].error # None)
            /\ s.projects_with_changes >= 0
            /\ s.projects_with_errors >= 0
            /\ s.projects_without_changes >= 0
            /\ s.total_projects = Len(ds)
            /\ s.projects_with_changes + s.projects_with_errors
                  + s.projects_without_changes = s.total_projects

\* the results with at least one commit, by position in the list
Changed(ds) == {k \in DOMAIN ds : Len(ds[k].commits) >= 1}

Pair(ds, k) == <<ds[k].project_path, Len(ds[k].commits)>>

\* C17: top_projects lists (project_path, commit_count) pairs of results
\* with at least one commit only, each result at most once, in
\* non-increasing commit_count order; its length is min(10, number of
\* results with commits) and no result left out has a strictly larger count
\* than a listed one.
C17_TopProjects ==
    \A n \in DOMAIN summaries :
        LET ds  == deltas.value
            top == summaries[n].top_projects
            listed == {k \in Changed(ds) :
                         \E m \in DOMAIN top : top[m] = Pair(ds, k)}
        IN  /\ Len(top) = IF Cardinality(Changed(ds)) < 10
                          THEN Cardinality(Changed(ds)) ELSE 10
            /\ \A m \in DOMAIN top : \E k \in Changed(ds) : top[m] = Pair(ds, k)
            /\ Cardinality(Range(top)) = Len(top)
            /\ \A m \in DOMAIN top : m < Len(top) => top[m][2] >= top[m + 1][2]
            /\ \A k \in Changed(ds) \ listed :
                  \A m \in DOMAIN top : top[m][2] >= Len(ds[k].commits)

C17_Witness ==
    /\ Len(summaries) >= 1
    /\ Cardinality(Changed(deltas.value)) = 12
    /\ Len(summaries[1].top_projects) = 10
    /\ Len(deltas.value[12].commits) = 2
    /\ summaries[1].top_projects[10][2] = 1

\* every commit of every result, as (result, position) pairs
AllCommits(ds) ==
    {p \in (DOMAIN ds) \X (1..MaxListLen + 1) : p[2] <= Len(ds[p[1]].commits)}

\* C18: unique_authors holds exactly the author_name values of the commits
\* of all results, each once; total_commits is the number of commits of all
\* results; a further call of generate_summary on the same list returns the
\* same summary, and no call changes the list.
C18_AuthorsAndTotals ==
    /\ [](\A n \in DOMAIN summaries :
            LET ds == deltas.value
                s  == summaries[n]
            IN  /\ Range(s.unique_authors)
                     = {ds[p[1]].commits[p[2]].author_name : p \in AllCommits(ds)}
                /\ Len(s.unique_authors) = Cardinality(Range(s.unique_authors))
                /\ s.total_commits = Cardinality(AllCommits(ds))
                /\ s = summaries[1])
    /\ [][deltas.bound => deltas' = deltas]_vars

C18_Witness ==
    /\ Len(summaries) = 2
    /\ Len(deltas.value) = 3
    /\ summaries[2].unique_authors = <<"", "ann", "bob">>
    /\ summaries[2].total_commits = 5

\* C19: when KeyboardInterrupt arrives while a project is in flight and
\* other projects completed before it, no DeltaResult exists for the project
\* in flight and the DeltaResults of the completed projects are what the
\* caller holds.
C19_Original ==
    (pc = "exit130" /\ Len(results) >= 1 /\ result # NoResult) =>
        /\ Len(results) = i - 1
        /\ deltas.bound
        /\ deltas.value = results

\* the items of the pages requested, page after page
RECURSIVE Flat(_)
Flat(ps) == IF ps = <<>> THEN <<>> ELSE PageAt(ps[1]).items \o Flat(Tail(ps))

\* the page ends the collection: it is empty, or its response carries no
\* next-page header or an empty one
LastPage(n) ==
    \/ PageAt(n).items = <<>>
    \/ "x-next-page" \notin DOMAIN PageAt(n).headers
    \/ PageAt(n).headers["x-next-page"] = ""

\* C20: _get_paginated requests page 1 first and then the page each
\* next-page header names; what it returns is the concatenation, in the
\* order requested, of the items of every page requested; it returns at the
\* first page that is empty or carries no or an empty next-page header, and
\* at no earlier page.
C20_Concatenation ==
    /\ fetched # <<>> => fetched[1] = 1
    /\ \A k \in DOMAIN fetched :
         k < Len(fetched) =>
            /\ PageAt(fetched[k]).status = "ok"
            /\ ~LastPage(fetched[k])
            /\ Numerals[fetched[k + 1]] = PageAt(fetched[k]).headers["x-next-page"]
    /\ pc \in {"request", "returned"} => all_items = Flat(fetched)
    /\ pc = "returned" => LastPage(fetched[Len(fetched)])
    /\ (fetched # <<>> /\ PageAt(fetched[Len(fetched)]).status = "ok"
          /\ LastPage(fetched[Len(fetched)])) => pc = "returned"

C20_Witness ==
    /\ pc = "returned"
    /\ fetched = <<1, 3, 2>>
    /\ Len(all_items) = 5
    /\ PageAt(2).headers = NextPageHeader("")

\* the listing the remote answers for a reference of a project
ListingOf(project_id, ref) == remote[project_id][ref].list_commits_from_ref

\* C21: a listing with two or more records under one hash raises nothing:
\* target_commit_map holds one record per hash listed, the last one in
\* listing order; base_commit_count and target_commit_count count distinct
\* hashes, total_commits counts the distinct hashes of the difference, and a
\* commit of the result carries the committed_date of the last record listed
\* under its hash.  The only error a comparison whose listings both answered
\* can end with is that of sorting a null committed_date.
C21_LastWins ==
    /\ pc = "list_base" =>
          target_commit_map =
              [h \in Listed(projects[i].id, target_ref) |->
                  LastListed(projects[i].id, target_ref, h)]
    /\ \A r \in Returned :
          (/\ r.base_exists /\ r.target_exists
           /\ ListingOf(r.project_id, r.target_ref).status = "ok"
           /\ ListingOf(r.project_id, r.base_ref).status = "ok") =>
             LET target_shas == Listed(r.project_id, r.target_ref)
                 base_shas   == Listed(r.project_id, r.base_ref)
             IN  /\ r.target_commit_count = Cardinality(target_shas)
                 /\ r.base_commit_count = Cardinality(base_shas)
                 /\ r.total_commits = Cardinality(target_shas \ base_shas)
                 /\ \A c \in Range(r.commits) :
                       c.committed_date =
                          Get(LastListed(r.project_id, r.target_ref, c.commit_sha),
                              "committed_date", EmptyStr)
                 /\ r.error # None =>
                       /\ Len(r.commits) >= 2
                       /\ \E c \in Range(r.commits) : c.committed_date = Null

C21_Witness ==
    \E r \in Returned :
        LET listed == ListingOf(r.project_id, r.target_ref).items
        IN  /\ is_successful(r)
            /\ Len(listed) = 2
            /\ listed[1].id = listed[2].id
            /\ Get(listed[1], "committed_date", EmptyStr) = 1
            /\ Get(listed[2], "committed_date", EmptyStr) = 2
            /\ r.target_commit_count = 1
            /\ Len(r.commits) = 1
            /\ r.commits[1].committed_date = 2

IsListing(c) == c.method = "list_commits_from_ref"

\* C22: a listing that raises ends the comparison of its project: it is the
\* last client call of the iteration and the only listing of its reference
\* (no retry, the other reference is not listed after it), and the
\* DeltaResult returned has the error of the exception, no commits and no
\* counts, whatever pages were fetched before the failure.
C22_ListingErrorAborts ==
    \A n \in DOMAIN calls :
        LET c == calls[n]
        IN  (IsListing(c) /\ OutcomeOf(c) # "ok") =>
              /\ \A m \in CallsOf(c.iteration) : m <= n
              /\ \A m \in CallsOf(c.iteration) :
                    (IsListing(calls[m]) /\ calls[m].which = c.which) => m = n
              /\ c.iteration = i => pc \in {"return", "exit130"}
              /\ LET r == ResultOf(c.iteration)
                 IN  /\ r.error = ExceptClause(OutcomeOf(c))
                     /\ r.commits = <<>>
                     /\ r.total_commits = 0
                     /\ r.base_commit_count = 0
                     /\ r.target_commit_count = 0
                     /\ ~r.compare_same_ref

C22_Witness ==
    /\ pc = "done"
    /\ Len(results) >= 2
    /\ ListingOf(projects[1].id, target_ref).status = "apierror"
    /\ Len(ListingOf(projects[1].id, target_ref).items) = 2
    /\ results[1].base_exists /\ results[1].target_exists
    /\ results[1].error = "API error: API request failed: 500"
    /\ results[1].commits = <<>>
    /\ Cardinality({n \in CallsOf(1) : IsListing(calls[n])}) = 1
    /\ results[2].error = None /\ has_changes(results[2])

\* C23: a delta run whose project list is empty ends with exit status 1
\* before the finder is entered: no comparison is begun, no client call is
\* made, no list of results is returned and nothing is summarised; a run
\* with at least one project never ends that way.
C23_EmptyListIsFatal ==
    /\ projects = <<>> =>
          /\ pc \in {"cli", "exit1"}
          /\ calls = <<>>
          /\ result = NoResult
          /\ results = <<>>
          /\ ~deltas.bound
          /\ summaries = <<>>
    /\ pc = "exit1" => projects = <<>>
    /\ pc = "done" => deltas.bound /\ deltas.value # <<>>

C23_Witness ==
    /\ projects = <<>>
    /\ pc = "exit1"

ListingsOf(k) == {n \in CallsOf(k) : IsListing(calls[n])}

\* C27: inside one project the base is resolved before the target, the
\* target only once the base resolved; a listing is made only after both
\* references resolved affirmatively and after every lookup; the target is
\* listed before the base; a fully successful comparison makes exactly two
\* listings, the target's then the base's, also when the two references are
\* one and the same.
C27_CallOrder ==
    /\ \A n \in DOMAIN calls :
         LET c == calls[n]
             k == c.iteration
         IN  /\ (IsLookup(c) /\ c.which = "target") =>
                   /\ Flag(k, "base")
                   /\ RunCalls(k, "base") # {}
                   /\ \A m \in RunCalls(k, "base") : m < n
             /\ IsListing(c) =>
                   /\ Flag(k, "base") /\ Flag(k, "target")
                   /\ RunCalls(k, "base") # {} /\ RunCalls(k, "target") # {}
                   /\ \A m \in CallsOf(k) : IsLookup(calls[m]) => m < n
             /\ (IsListing(c) /\ c.which = "base") =>
                   /\ n - 1 \in ListingsOf(k)
                   /\ calls[n - 1].which = "target"
                   /\ OutcomeOf(calls[n - 1]) = "ok"
             /\ (IsListing(c) /\ c.which = "target") =>
                   \A m \in ListingsOf(k) : m >= n
    /\ \A k \in DOMAIN results :
         is_successful(results[k]) =>
            \E n \in CallsOf(k) :
               /\ ListingsOf(k) = {n, n + 1}
               /\ calls[n].which = "target" /\ calls[n].ref = target_ref
               /\ calls[n + 1].which = "base" /\ calls[n + 1].ref = base_ref
               /\ \A m \in CallsOf(k) : m <= n + 1

C27_Witness ==
    /\ pc = "done"
    /\ base_ref = target_ref
    /\ is_successful(results[1])
    /\ Len(calls) = 8
    /\ calls[3].method = "get_commit" /\ calls[3].which = "base"
    /\ calls[4].method = "get_tag" /\ calls[4].which = "target"
    /\ calls[7].method = "list_commits_from_ref" /\ calls[7].which = "target"
    /\ calls[8].method = "list_commits_from_ref" /\ calls[8].which = "base"
    /\ calls[7].ref = calls[8].ref

\* C28: in every successful DeltaResult the commits are in non-increasing
\* order of committed_date (as Python orders the strings, the empty string
\* of a missing date last): commits[j].committed_date >=
\* commits[k].committed_date for all positions j < k.
C28_NewestFirst ==
    \A r \in Returned :
        is_successful(r) =>
            \A j, k \in DOMAIN r.commits :
                j < k => r.commits[j].committed_date >= r.commits[k].committed_date

C28_Witness ==
    \E r \in Returned :
        LET listed == ListingOf(r.project_id, r.target_ref).items
        IN  /\ is_successful(r)
            /\ Len(r.commits) = 2
            /\ r.commits[1].committed_date = 2
            /\ r.commits[2].committed_date = 1
            /\ listed[1].id = r.commits[2].commit_sha
            /\ listed[2].id = r.commits[1].commit_sha

\* C29: compare_same_ref is set only on a result whose references both
\* exist, whose listings both answered and list the same set of hashes, and
\* such a result has no error, no commits and equal base and target counts;
\* it is not set when the delta is empty because the target's hashes are a
\* proper subset of the base's, and not set on any result with an error.
C29_SameRefOnlyIfEqual ==
    \A r \in Returned :
        LET target_shas == Listed(r.project_id, r.target_ref)
            base_shas   == Listed(r.project_id, r.base_ref)
        IN  /\ r.compare_same_ref =>
                  /\ r.base_exists /\ r.target_exists
                  /\ ListingOf(r.project_id, r.target_ref).status = "ok"
                  /\ ListingOf(r.project_id, r.base_ref).status = "ok"
                  /\ target_shas = base_shas
                  /\ r.commits = <<>>
                  /\ r.total_commits = 0
                  /\ r.base_commit_count = r.target_commit_count
            /\ (/\ is_successful(r)
                /\ target_shas \subseteq base_shas
                /\ target_shas # base_shas) =>
                  /\ ~r.compare_same_ref
                  /\ r.commits = <<>>
                  /\ r.total_commits = 0
            /\ r.error # None => ~r.compare_same_ref

C29_Witness ==
    \E r \in Returned :
        /\ is_successful(r)
        /\ ~r.compare_same_ref
        /\ r.total_commits = 0
        /\ r.target_commit_count = 1
        /\ r.base_commit_count = 2

\* the response to page n leaves the loop, by break or by an exception
Stops(n) ==
    \/ PageAt(n).status # "ok"
    \/ LastPage(n)
    \/ PageAt(n).headers["x-next-page"] \notin Range(Numerals)

\* the pages the headers lead through from page n, `fuel` of them at most
RECURSIVE Chain(_, _)
Chain(n, fuel) ==
    IF fuel = 0 THEN <<>>
    ELSE IF Stops(n) THEN <<n>>
    ELSE <<n>> \o Chain(IntOf(PageAt(n).headers["x-next-page"]), fuel - 1)

Visited == Chain(1, MaxFetches)

\* the server comes to answer an empty page or a response without a
\* next-page marker
Ends ==
    LET last == Visited[Len(Visited)]
    IN  PageAt(last).status = "ok" /\ LastPage(last)

\* the markers lead back to a page already visited
Cycles == Cardinality(Range(Visited)) < Len(Visited)

\* C30: when the pages the markers lead through come to an empty page or to
\* a response without a next-page marker, _get_paginated returns, having
\* requested each page visited exactly once and no other page; it requests
\* nothing but the pages the markers name; and when the markers cycle it
\* never returns, since nothing in the loop bounds the number of pages.
C30_Terminates ==
    /\ Ends => <>(/\ pc = "returned"
                  /\ fetched = Visited
                  /\ Cardinality(Range(fetched)) = Len(fetched))
    /\ [](/\ Len(fetched) <= Len(Visited)
          /\ \A k \in DOMAIN fetched : fetched[k] = Visited[k])
    /\ Cycles => [](pc \notin {"returned", "raised"})

C30_Witness ==
    /\ pc = "returned"
    /\ Ends
    /\ fetched = <<1, 2, 3, 4>>
    /\ PageAt(4).items = <<>>
    /\ Len(all_items) = 3

MRAnswer(project) == remote[project.id].list_merge_requests

\* C24: find_merge_requests returns one MRResult per project, the k-th for
\* the k-th project; a project whose list_merge_requests raised has an error
\* and no merge requests; and the result of every project, the ones after a
\* failed project included, is what that project's own answer determines: a
\* well-formed answer gives no error and one MergeRequest per element.
C24_OneMRResultPerProject ==
    /\ Len(results) = i - 1
    /\ pc = "mr_done" => Len(results) = Len(projects)
    /\ \A k \in DOMAIN results :
         LET r      == results[k]
             answer == MRAnswer(projects[k])
         IN  /\ r.project_id = projects[k].id
             /\ r.project_path = projects[k].path_with_namespace
             /\ answer.status # "ok" =>
                   /\ r.error # None
                   /\ r.merge_requests = <<>>
                   /\ r.total_mrs = 0
             /\ (/\ answer.status = "ok"
                 /\ \A n \in DOMAIN answer.items : answer.items[n] # NotAnObject) =>
                   /\ r.error = None
                   /\ r.total_mrs = Len(answer.items)
                   /\ Len(r.merge_requests) = Len(answer.items)
                   /\ \A n \in DOMAIN answer.items :
                         r.merge_requests[n].mr_iid = answer.items[n].iid

C24_Witness ==
    /\ pc = "mr_done"
    /\ MRAnswer(projects[1]).status = "apierror"
    /\ results[1].error = "API error: API request failed: 500"
    /\ results[1].merge_requests = <<>>
    /\ results[2].error = None
    /\ Len(results[2].merge_requests) = 2
    /\ results[3].error # None
    /\ Len(calls) = 3

\* the (commit, project) pairs in the order search_commits visits them
SearchPairs ==
    [m \in 1..(Len(commit_list) * Len(projects)) |->
        <<((m - 1) \div Len(projects)) + 1, ((m - 1) % Len(projects)) + 1>>]

Blank(sha) == sha \in {"", "  "}

\* what get_commit answers for a pair whose SHA is not blank
Answered(pair) ==
    remote[projects[pair[2]].id][Strip(commit_list[pair[1]])].get_commit

Consulted ==
    (IF config.scan.mode = "auto_discover"
     THEN {remote.group_projects_by_id[g] : g \in Range(config.groups.by_id)}
          \cup {remote.group_projects_by_path[g] : g \in Range(config.groups.by_path)}
     ELSE {})
    \cup {remote.project_by_id[p] : p \in Range(config.projects.by_id)}
    \cup {remote.project_by_path[p] : p \in Range(config.projects.by_path)}

\* the ids of the projects the answered fetches name and the filters let pass
Named ==
    {d.id : d \in {d \in UNION {Range(a.items) : a \in Consulted} :
        /\ config.filters.include_project_paths # <<>> =>
              d.path_with_namespace \in Range(config.filters.include_project_paths)
        /\ d.path_with_namespace
              \notin Range(config.filters.exclude_project_paths)}}

Aborting == \E a \in Consulted : a.status \in {"apierror", "exception"}

\* C26: resolve_projects returns a list in which no id occurs twice,
\* whatever groups and explicit ids and paths name a project; the list holds
\* exactly the projects named by the fetches that answered, a fetch
\* answered not-found being skipped; and it raises, returning nothing, exactly
\* when a fetch the configuration asks for fails in another way.
C26_NoDuplicateIds ==
    /\ pc = "resolved" =>
          /\ \A j, k \in DOMAIN projects : j < k => projects[j].id # projects[k].id
          /\ {projects[k].id : k \in DOMAIN projects} = Named
          /\ \A k \in DOMAIN projects : projects[k] = ProjectInfo(projects[k].id)
          /\ ~Aborting
    /\ pc = "raised" => Aborting /\ projects = <<>>

C26_Witness ==
    /\ pc = "resolved"
    /\ config.scan.mode = "auto_discover"
    /\ config.groups.by_id = <<10, 20>>
    /\ remote.group_projects_by_id[10].status = "notfound"
    /\ config.groups.by_path = <<"grp">>
    /\ config.projects.by_id = <<2, 1>>
    /\ remote.project_by_id[1].status = "notfound"
    /\ config.projects.by_path = <<"group/project1">>
    /\ projects = <<ProjectInfo(2), ProjectInfo(1)>>
    /\ Len(calls) = 6

====
